---------------------------- MODULE Spec2Model ----------------------------
(***************************************************************************)
(* A model of the Chip-8 interpreter of src/chip8.py: the CPU state of     *)
(* Chip8CPU, the 35 instruction handlers, fetch / decode / execute / cycle *)
(* and the host loop of Chip8CPU.start.                                    *)
(*                                                                         *)
(* Python lists (memory, v_registers, inputs, stack) are sequences: the    *)
(* Python index k is the sequence index k + 1, a negative Python index     *)
(* counts from the end, and an index outside -len..len-1 raises            *)
(* IndexError.  Python integers are unbounded, so no value is truncated    *)
(* unless the code truncates it.  An exception raised inside cycle()       *)
(* propagates out of start() and ends the program; the state written       *)
(* before the exception stays written.                                     *)
(***************************************************************************)
EXTENDS Integers, Sequences, FiniteSets, TLC

VARIABLES
    memory,            \* Chip8CPU.memory: list of 4096 bytes
    program_counter,   \* Chip8CPU.program_counter
    stack,             \* Chip8CPU.stack: list of saved program counters
    v_registers,       \* Chip8CPU.v_registers: list of 16 integers
    i_register,        \* Chip8CPU.i_register
    delay_timer,       \* Chip8CPU.delay_timer
    sound_timer,       \* Chip8CPU.sound_timer
    inputs,            \* Chip8CPU.inputs: list of 16 key flags
    screen,            \* Chip8CPU.screen: screen[y][x], 32 rows of 64 pixels
    fx15_delay_timer,  \* attribute delay_timer of the OPFX15 object: <<>> until set
    fx18_sound_timer,  \* attribute sound_timer of the OPFX18 object: <<>> until set
    host,              \* position of main()/start(): "load", "cycle", "render", "tick", "crashed"
    loop_i,            \* cycles completed in the current burst of start()
    cycles,            \* number of calls of cycle() so far
    history,           \* one record per call of cycle(): the opcode fetched, the
                       \* instruction decoded, whether the call raised (exc), and
                       \* the program counter and stack it started from
    prev,              \* the CPU state before the latest call of cycle()
    events,            \* what start() has done so far, in order: "cycle" (a call of
                       \* cycle() that returned), "raise" (one that raised),
                       \* "render", "tick"
    probe              \* an operation applied on its own: the opcode handed to
                       \* decode() and the handler returned, or the timers
                       \* update_timers() started from and the number of its calls

vars == <<memory, program_counter, stack, v_registers, i_register, delay_timer,
          sound_timer, inputs, screen, fx15_delay_timer, fx18_sound_timer,
          host, loop_i, cycles, history, prev, events, probe>>

(***************************************************************************)
(* Bounds of the model.                                                    *)
(***************************************************************************)
\* the number of calls of cycle() a behaviour makes (start() loops forever)
MaxCycles == 8

(***************************************************************************)
(* Program constants.                                                      *)
(***************************************************************************)
START_ADDRESS == 512
SCREEN_WIDTH == 64
SCREEN_HEIGHT == 32
MEMORY_SIZE == 4096
NUM_REGISTERS == 16
NUM_INPUTS == 16
CYCLES_PER_FRAME == 4

(***************************************************************************)
(* Python's integer operators.  & | ^ act on the infinite two's complement *)
(* representation; >> is floor division by a power of two; % with a        *)
(* positive divisor is non-negative.                                       *)
(***************************************************************************)
RECURSIVE BitAnd(_, _)
BitAnd(a, b) ==
    IF a = 0 \/ b = 0 THEN 0
    ELSE IF a = -1 THEN b
    ELSE IF b = -1 THEN a
    ELSE ((a % 2) * (b % 2)) + 2 * BitAnd(a \div 2, b \div 2)

RECURSIVE BitOr(_, _)
BitOr(a, b) ==
    IF a = 0 THEN b
    ELSE IF b = 0 THEN a
    ELSE IF a = -1 \/ b = -1 THEN -1
    ELSE (IF (a % 2) + (b % 2) > 0 THEN 1 ELSE 0) + 2 * BitOr(a \div 2, b \div 2)

RECURSIVE BitXor(_, _)
BitXor(a, b) ==
    IF a = 0 THEN b
    ELSE IF b = 0 THEN a
    ELSE IF a = -1 THEN (0 - b) - 1
    ELSE IF b = -1 THEN (0 - a) - 1
    ELSE (((a % 2) + (b % 2)) % 2) + 2 * BitXor(a \div 2, b \div 2)

ShiftRight(a, k) == a \div (2 ^ k)

ShiftLeft(a, k) == a * (2 ^ k)

(***************************************************************************)
(* Python list indexing and slicing.                                       *)
(***************************************************************************)
\* l[k] does not raise IndexError
ListOk(l, k) == (0 - Len(l)) <= k /\ k < Len(l)

\* the sequence index of l[k]
ListPos(l, k) == (IF k < 0 THEN k + Len(l) ELSE k) + 1

ListGet(l, k) == l[ListPos(l, k)]

ListSet(l, k, v) == [l EXCEPT ![ListPos(l, k)] = v]

\* a slice bound k clamped the way l[a:b] clamps it
SliceBound(l, k) ==
    IF k < 0 THEN (IF k + Len(l) < 0 THEN 0 ELSE k + Len(l))
    ELSE (IF k > Len(l) THEN Len(l) ELSE k)

\* l[a:b]
ListSlice(l, a, b) ==
    LET lo == SliceBound(l, a)
        hi == SliceBound(l, b)
    IN  IF hi <= lo THEN << >> ELSE SubSeq(l, lo + 1, hi)

\* l[a:b] = vals
ListSliceAssign(l, a, b, vals) ==
    LET lo == SliceBound(l, a)
        hi0 == SliceBound(l, b)
        hi == IF hi0 < lo THEN lo ELSE hi0
    IN  SubSeq(l, 1, lo) \o vals \o SubSeq(l, hi + 1, Len(l))

(***************************************************************************)
(* The CPU state as one value, so that a handler is a function from the    *)
(* state before it to the state after it.  exc is TRUE once an exception   *)
(* has been raised.                                                        *)
(***************************************************************************)
CPU ==
    [memory |-> memory, program_counter |-> program_counter, stack |-> stack,
     v_registers |-> v_registers, i_register |-> i_register,
     delay_timer |-> delay_timer, sound_timer |-> sound_timer,
     inputs |-> inputs, screen |-> screen,
     fx15_delay_timer |-> fx15_delay_timer,
     fx18_sound_timer |-> fx18_sound_timer, exc |-> FALSE]

Raise(c) == [c EXCEPT !.exc = TRUE]

\* self.cpu.v_registers[x] = val, after whatever c has already done
SetReg(c, x, val) ==
    IF c.exc THEN c
    ELSE IF ListOk(c.v_registers, x)
         THEN [c EXCEPT !.v_registers = ListSet(@, x, val)]
         ELSE Raise(c)

\* self.cpu.memory[k] = val, after whatever c has already done
SetMem(c, k, val) ==
    IF c.exc THEN c
    ELSE IF ListOk(c.memory, k)
         THEN [c EXCEPT !.memory = ListSet(@, k, val)]
         ELSE Raise(c)

\* the opcode's bit fields
OpX(opcode) == ShiftRight(BitAnd(opcode, \h0f00), 8)
OpY(opcode) == ShiftRight(BitAnd(opcode, \h00f0), 4)
OpN(opcode) == BitAnd(opcode, \h000f)
OpNN(opcode) == BitAnd(opcode, \h00ff)
OpNNN(opcode) == BitAnd(opcode, \h0fff)


(***************************************************************************)
(* The instruction handlers: execute(opcode) of each Instruction class.    *)
(***************************************************************************)
OP0NNN(c, opcode) == c

\* Chip8CPU.reset_screen
reset_screen == [y \in 0..(SCREEN_HEIGHT - 1) |-> [x \in 0..(SCREEN_WIDTH - 1) |-> 0]]

\* a faulty clear-screen that leaves the framebuffer as it is
OP00E0Keeps(c, opcode) == c

OP00E0(c, opcode) == [c EXCEPT !.screen = reset_screen]

\* stack.pop() raises IndexError on an empty list
OP00EE(c, opcode) ==
    IF Len(c.stack) = 0 THEN Raise(c)
    ELSE [c EXCEPT !.program_counter = c.stack[Len(c.stack)],
                   !.stack = SubSeq(c.stack, 1, Len(c.stack) - 1)]

OP1NNN(c, opcode) == [c EXCEPT !.program_counter = OpNNN(opcode) - 2]

\* a faulty call that pushes the target in place of the address of the call
OP2NNNPushesTarget(c, opcode) ==
    [c EXCEPT !.stack = Append(c.stack, OpNNN(opcode)),
              !.program_counter = OpNNN(opcode) - 2]

OP2NNN(c, opcode) ==
    [c EXCEPT !.stack = Append(c.stack, c.program_counter),
              !.program_counter = OpNNN(opcode) - 2]

OP3XNN(c, opcode) ==
    LET x == OpX(opcode)
        nn == OpNN(opcode)
    IN  IF ~ListOk(c.v_registers, x) THEN Raise(c)
        ELSE IF ListGet(c.v_registers, x) = nn
             THEN [c EXCEPT !.program_counter = @ + 2]
             ELSE c

OP4XNN(c, opcode) ==
    LET x == OpX(opcode)
        nn == OpNN(opcode)
    IN  IF ~ListOk(c.v_registers, x) THEN Raise(c)
        ELSE IF ListGet(c.v_registers, x) # nn
             THEN [c EXCEPT !.program_counter = @ + 2]
             ELSE c

OP5XY0(c, opcode) ==
    LET x == OpX(opcode)
        y == OpY(opcode)
    IN  IF ~(ListOk(c.v_registers, x) /\ ListOk(c.v_registers, y)) THEN Raise(c)
        ELSE IF ListGet(c.v_registers, x) = ListGet(c.v_registers, y)
             THEN [c EXCEPT !.program_counter = @ + 2]
             ELSE c

OP6XNN(c, opcode) == SetReg(c, OpX(opcode), OpNN(opcode))

OP7XNN(c, opcode) ==
    LET x == OpX(opcode)
        nn == OpNN(opcode)
    IN  IF ~ListOk(c.v_registers, x) THEN Raise(c)
        ELSE SetReg(c, x, ListGet(c.v_registers, x) + nn)

OP8XY0(c, opcode) ==
    LET x == OpX(opcode)
        y == OpY(opcode)
    IN  IF ~ListOk(c.v_registers, y) THEN Raise(c)
        ELSE SetReg(c, x, ListGet(c.v_registers, y))

OP8XY1(c, opcode) ==
    LET x == OpX(opcode)
        y == OpY(opcode)
    IN  IF ~(ListOk(c.v_registers, x) /\ ListOk(c.v_registers, y)) THEN Raise(c)
        ELSE SetReg(c, x, BitOr(ListGet(c.v_registers, x), ListGet(c.v_registers, y)))

OP8XY2(c, opcode) ==
    LET x == OpX(opcode)
        y == OpY(opcode)
    IN  IF ~(ListOk(c.v_registers, x) /\ ListOk(c.v_registers, y)) THEN Raise(c)
        ELSE SetReg(c, x, BitAnd(ListGet(c.v_registers, x), ListGet(c.v_registers, y)))

OP8XY3(c, opcode) ==
    LET x == OpX(opcode)
        y == OpY(opcode)
    IN  IF ~(ListOk(c.v_registers, x) /\ ListOk(c.v_registers, y)) THEN Raise(c)
        ELSE SetReg(c, x, BitXor(ListGet(c.v_registers, x), ListGet(c.v_registers, y)))

OP8XY4(c, opcode) ==
    LET x == OpX(opcode)
        y == OpY(opcode)
    IN  IF ~(ListOk(c.v_registers, x) /\ ListOk(c.v_registers, y)) THEN Raise(c)
        ELSE LET result == ListGet(c.v_registers, x) + ListGet(c.v_registers, y)
                 carry == IF result > \hff THEN 1 ELSE 0
             IN  SetReg(SetReg(c, x, result % \hff), \hf, carry)

OP8XY5(c, opcode) ==
    LET x == OpX(opcode)
        y == OpY(opcode)
    IN  IF ~(ListOk(c.v_registers, x) /\ ListOk(c.v_registers, y)) THEN Raise(c)
        ELSE LET diff == ListGet(c.v_registers, x) - ListGet(c.v_registers, y)
                 borrow == IF diff < 0 THEN 1 ELSE 0
                 result == IF diff < 0 THEN diff + \hff ELSE diff
             IN  SetReg(SetReg(c, x, result), \hf, 1 - borrow)

OP8XY6(c, opcode) ==
    LET x == OpX(opcode)
    IN  IF ~ListOk(c.v_registers, x) THEN Raise(c)
        ELSE LET vx == ListGet(c.v_registers, x)
                 lsb == BitAnd(vx, 1)
             IN  SetReg(SetReg(c, \hf, lsb), x, ShiftRight(vx, 1))

OP8XY7(c, opcode) ==
    LET x == OpX(opcode)
        y == OpY(opcode)
    IN  IF ~(ListOk(c.v_registers, x) /\ ListOk(c.v_registers, y)) THEN Raise(c)
        ELSE LET diff == ListGet(c.v_registers, y) - ListGet(c.v_registers, x)
                 borrow == IF diff < 0 THEN 1 ELSE 0
                 result == IF diff < 0 THEN diff + \hff ELSE diff
             IN  SetReg(SetReg(c, x, result), \hf, 1 - borrow)

OP8XYE(c, opcode) ==
    LET x == OpX(opcode)
    IN  IF ~ListOk(c.v_registers, x) THEN Raise(c)
        ELSE LET vx == ListGet(c.v_registers, x)
                 msb == ShiftRight(vx, 7)
             IN  SetReg(SetReg(c, \hf, msb), x, ShiftLeft(vx, 1))

OP9XY0(c, opcode) ==
    LET x == OpX(opcode)
        y == OpY(opcode)
    IN  IF ~(ListOk(c.v_registers, x) /\ ListOk(c.v_registers, y)) THEN Raise(c)
        ELSE IF ListGet(c.v_registers, x) # ListGet(c.v_registers, y)
             THEN [c EXCEPT !.program_counter = @ + 2]
             ELSE c

OPANNN(c, opcode) == [c EXCEPT !.i_register = OpNNN(opcode)]

OPBNNN(c, opcode) ==
    IF ~ListOk(c.v_registers, 0) THEN Raise(c)
    ELSE [c EXCEPT !.program_counter = (OpNNN(opcode) + ListGet(c.v_registers, 0)) - 2]

\* rnd is what random.randint(0, 255) returns
OPCXNN(c, opcode, rnd) == SetReg(c, OpX(opcode), BitAnd(rnd, OpNN(opcode)))

\* Chip8CPU.get_pixel
get_pixel(c, x, y) == c.screen[y][x]

\* Chip8CPU.set_pixel
set_pixel(c, x, y, value) == [c EXCEPT !.screen[y][x] = value]

\* a faulty inner loop that ORs the sprite bit into the pixel
RECURSIVE DrawRowOr(_, _, _, _, _)
DrawRowOr(c, sprite_row, vx, yc, x_offset) ==
    IF x_offset >= 8 THEN c
    ELSE LET xc == (vx + x_offset) % SCREEN_WIDTH
             yw == yc % SCREEN_HEIGHT
             current_pixel == get_pixel(c, xc, yw)
             sprite_pixel == IF BitAnd(sprite_row, ShiftLeft(1, 7 - x_offset)) = 0 THEN 0 ELSE 1
             new_pixel == BitOr(current_pixel, sprite_pixel)
             flagged == IF current_pixel = 1 /\ sprite_pixel = 1
                        THEN SetReg(c, \hf, 1)
                        ELSE c
         IN  IF flagged.exc THEN flagged
             ELSE DrawRowOr(set_pixel(flagged, xc, yw, new_pixel),
                            sprite_row, vx, yc, x_offset + 1)

\* the body of the inner loop of OPDXYN.execute, for x_offset..7
RECURSIVE DrawRow(_, _, _, _, _)
DrawRow(c, sprite_row, vx, yc, x_offset) ==
    IF x_offset >= 8 THEN c
    ELSE LET xc == (vx + x_offset) % SCREEN_WIDTH
             yw == yc % SCREEN_HEIGHT
             current_pixel == get_pixel(c, xc, yw)
             sprite_pixel == IF BitAnd(sprite_row, ShiftLeft(1, 7 - x_offset)) = 0 THEN 0 ELSE 1
             new_pixel == BitXor(current_pixel, sprite_pixel)
             flagged == IF current_pixel = 1 /\ sprite_pixel = 1
                        THEN SetReg(c, \hf, 1)
                        ELSE c
         IN  IF flagged.exc THEN flagged
             ELSE DrawRow(set_pixel(flagged, xc, yw, new_pixel),
                          sprite_row, vx, yc, x_offset + 1)

\* the outer loop of OPDXYN.execute, for y_offset..n-1
RECURSIVE DrawRows(_, _, _, _, _, _)
DrawRows(c, i, vx, vy, n, y_offset) ==
    IF c.exc \/ y_offset >= n THEN c
    ELSE IF ~ListOk(c.memory, i + y_offset) THEN Raise(c)
    ELSE DrawRows(DrawRow(c, ListGet(c.memory, i + y_offset), vx, vy + y_offset, 0),
                  i, vx, vy, n, y_offset + 1)

OPDXYN(c, opcode) ==
    LET x == OpX(opcode)
        y == OpY(opcode)
        n == OpN(opcode)
    IN  IF ~(ListOk(c.v_registers, x) /\ ListOk(c.v_registers, y)) THEN Raise(c)
        ELSE DrawRows(SetReg(c, \hf, 0), c.i_register,
                      ListGet(c.v_registers, x), ListGet(c.v_registers, y), n, 0)

OPEX9E(c, opcode) ==
    LET x == OpX(opcode)
    IN  IF ~ListOk(c.v_registers, x) THEN Raise(c)
        ELSE LET vx == ListGet(c.v_registers, x)
             IN  IF ~ListOk(c.inputs, vx) THEN Raise(c)
                 ELSE IF ListGet(c.inputs, vx) = 1
                      THEN [c EXCEPT !.program_counter = @ + 2]
                      ELSE c

OPEXA1(c, opcode) ==
    LET x == OpX(opcode)
    IN  IF ~ListOk(c.v_registers, x) THEN Raise(c)
        ELSE LET vx == ListGet(c.v_registers, x)
             IN  IF ~ListOk(c.inputs, vx) THEN Raise(c)
                 ELSE IF ListGet(c.inputs, vx) = 0
                      THEN [c EXCEPT !.program_counter = @ + 2]
                      ELSE c

OPFX07(c, opcode) == SetReg(c, OpX(opcode), c.delay_timer)

\* key is what random.randint(0, 15) returns
OPFX0A(c, opcode, key) == SetReg(c, OpX(opcode), key)

\* self.delay_timer = vx: self is the instruction object, not the cpu
OPFX15(c, opcode) ==
    LET x == OpX(opcode)
    IN  IF ~ListOk(c.v_registers, x) THEN Raise(c)
        ELSE [c EXCEPT !.fx15_delay_timer = <<ListGet(c.v_registers, x)>>]

\* self.sound_timer = vx: self is the instruction object, not the cpu
OPFX18(c, opcode) ==
    LET x == OpX(opcode)
    IN  IF ~ListOk(c.v_registers, x) THEN Raise(c)
        ELSE [c EXCEPT !.fx18_sound_timer = <<ListGet(c.v_registers, x)>>]

OPFX1E(c, opcode) ==
    LET x == OpX(opcode)
    IN  IF ~ListOk(c.v_registers, x) THEN Raise(c)
        ELSE LET result == c.i_register + ListGet(c.v_registers, x)
                 flagged == SetReg(c, \hf, IF result > \hfff THEN 1 ELSE 0)
             IN  IF flagged.exc THEN flagged
                 ELSE [flagged EXCEPT !.i_register = result % \hfff]

OPFX29(c, opcode) ==
    LET x == OpX(opcode)
    IN  IF ~ListOk(c.v_registers, x) THEN Raise(c)
        ELSE [c EXCEPT !.i_register = ListGet(c.v_registers, x) * 5]

OPFX33(c, opcode) ==
    LET x == OpX(opcode)
    IN  IF ~ListOk(c.v_registers, x) THEN Raise(c)
        ELSE LET vx == ListGet(c.v_registers, x)
                 hundreds == vx \div 100
                 rest == vx - (hundreds * 100)
                 tens == rest \div 10
                 units == rest - (tens * 10)
                 i == c.i_register
             IN  SetMem(SetMem(SetMem(c, i, hundreds), i + 1, tens), i + 2, units)

OPFX55(c, opcode) ==
    LET x == OpX(opcode)
        i == c.i_register
    IN  [c EXCEPT !.memory = ListSliceAssign(c.memory, i, i + x + 1,
                                             ListSlice(c.v_registers, 0, x + 1))]

OPFX65(c, opcode) ==
    LET x == OpX(opcode)
        i == c.i_register
    IN  [c EXCEPT !.v_registers = ListSliceAssign(c.v_registers, 0, x + 1,
                                                  ListSlice(c.memory, i, i + x + 1))]

(***************************************************************************)
(* Chip8CPU: the opcode table, fetch, decode, execute, cycle.              *)
(***************************************************************************)
\* the table with 0x0000 as the expected result of the entry of OP0NNN, which
\* then matches 0x00E0 and 0x00EE as well
opcode_table_0000 ==
    << <<\hf000, \h0000, "OP0NNN">>,
       <<\hffff, \h00e0, "OP00E0">>,
       <<\hffff, \h00ee, "OP00EE">>,
       <<\hf000, \h1000, "OP1NNN">>,
       <<\hf000, \h2000, "OP2NNN">>,
       <<\hf000, \h3000, "OP3XNN">>,
       <<\hf000, \h4000, "OP4XNN">>,
       <<\hf00f, \h5000, "OP5XY0">>,
       <<\hf000, \h6000, "OP6XNN">>,
       <<\hf000, \h7000, "OP7XNN">>,
       <<\hf00f, \h8000, "OP8XY0">>,
       <<\hf00f, \h8001, "OP8XY1">>,
       <<\hf00f, \h8002, "OP8XY2">>,
       <<\hf00f, \h8003, "OP8XY3">>,
       <<\hf00f, \h8004, "OP8XY4">>,
       <<\hf00f, \h8005, "OP8XY5">>,
       <<\hf00f, \h8006, "OP8XY6">>,
       <<\hf00f, \h8007, "OP8XY7">>,
       <<\hf00f, \h800e, "OP8XYE">>,
       <<\hf00f, \h9000, "OP9XY0">>,
       <<\hf000, \ha000, "OPANNN">>,
       <<\hf000, \hb000, "OPBNNN">>,
       <<\hf000, \hc000, "OPCXNN">>,
       <<\hf000, \hd000, "OPDXYN">>,
       <<\hf0ff, \he09e, "OPEX9E">>,
       <<\hf0ff, \he0a1, "OPEXA1">>,
       <<\hf0ff, \hf007, "OPFX07">>,
       <<\hf0ff, \hf00a, "OPFX0A">>,
       <<\hf0ff, \hf015, "OPFX15">>,
       <<\hf0ff, \hf018, "OPFX18">>,
       <<\hf0ff, \hf01e, "OPFX1E">>,
       <<\hf0ff, \hf029, "OPFX29">>,
       <<\hf0ff, \hf033, "OPFX33">>,
       <<\hf0ff, \hf055, "OPFX55">>,
       <<\hf0ff, \hf065, "OPFX65">> >>

\* mask, expected result, instruction
opcode_table ==
    << <<\hf000, \h0fff, "OP0NNN">>,
       <<\hffff, \h00e0, "OP00E0">>,
       <<\hffff, \h00ee, "OP00EE">>,
       <<\hf000, \h1000, "OP1NNN">>,
       <<\hf000, \h2000, "OP2NNN">>,
       <<\hf000, \h3000, "OP3XNN">>,
       <<\hf000, \h4000, "OP4XNN">>,
       <<\hf00f, \h5000, "OP5XY0">>,
       <<\hf000, \h6000, "OP6XNN">>,
       <<\hf000, \h7000, "OP7XNN">>,
       <<\hf00f, \h8000, "OP8XY0">>,
       <<\hf00f, \h8001, "OP8XY1">>,
       <<\hf00f, \h8002, "OP8XY2">>,
       <<\hf00f, \h8003, "OP8XY3">>,
       <<\hf00f, \h8004, "OP8XY4">>,
       <<\hf00f, \h8005, "OP8XY5">>,
       <<\hf00f, \h8006, "OP8XY6">>,
       <<\hf00f, \h8007, "OP8XY7">>,
       <<\hf00f, \h800e, "OP8XYE">>,
       <<\hf00f, \h9000, "OP9XY0">>,
       <<\hf000, \ha000, "OPANNN">>,
       <<\hf000, \hb000, "OPBNNN">>,
       <<\hf000, \hc000, "OPCXNN">>,
       <<\hf000, \hd000, "OPDXYN">>,
       <<\hf0ff, \he09e, "OPEX9E">>,
       <<\hf0ff, \he0a1, "OPEXA1">>,
       <<\hf0ff, \hf007, "OPFX07">>,
       <<\hf0ff, \hf00a, "OPFX0A">>,
       <<\hf0ff, \hf015, "OPFX15">>,
       <<\hf0ff, \hf018, "OPFX18">>,
       <<\hf0ff, \hf01e, "OPFX1E">>,
       <<\hf0ff, \hf029, "OPFX29">>,
       <<\hf0ff, \hf033, "OPFX33">>,
       <<\hf0ff, \hf055, "OPFX55">>,
       <<\hf0ff, \hf065, "OPFX65">> >>

\* the table entries whose (mask, expected result) match the opcode
Matches(opcode) ==
    {k \in 1..Len(opcode_table) :
        BitAnd(opcode, opcode_table[k][1]) = opcode_table[k][2]}

\* the loop of Chip8CPU.decode from entry k on: the first match returns
RECURSIVE DecodeFrom(_, _)
DecodeFrom(opcode, k) ==
    IF k > Len(opcode_table) THEN "None"
    ELSE IF BitAnd(opcode, opcode_table[k][1]) = opcode_table[k][2]
         THEN opcode_table[k][3]
         ELSE DecodeFrom(opcode, k + 1)

\* Chip8CPU.decode: the first matching entry's instruction; None without one
decode(opcode) == DecodeFrom(opcode, 1)

\* Chip8CPU.fetch needs memory[pc] and memory[pc + 1]
FetchOk(c) ==
    ListOk(c.memory, c.program_counter) /\ ListOk(c.memory, c.program_counter + 1)

\* Chip8CPU.fetch
fetch(c) ==
    ShiftLeft(ListGet(c.memory, c.program_counter), 8)
        + ListGet(c.memory, c.program_counter + 1)

\* Chip8CPU.execute: instruction.execute(opcode); None has no execute
execute(c, instruction, opcode, rnd, key) ==
    CASE instruction = "OP0NNN" -> OP0NNN(c, opcode)
      [] instruction = "OP00E0" -> OP00E0(c, opcode)
      [] instruction = "OP00EE" -> OP00EE(c, opcode)
      [] instruction = "OP1NNN" -> OP1NNN(c, opcode)
      [] instruction = "OP2NNN" -> OP2NNN(c, opcode)
      [] instruction = "OP3XNN" -> OP3XNN(c, opcode)
      [] instruction = "OP4XNN" -> OP4XNN(c, opcode)
      [] instruction = "OP5XY0" -> OP5XY0(c, opcode)
      [] instruction = "OP6XNN" -> OP6XNN(c, opcode)
      [] instruction = "OP7XNN" -> OP7XNN(c, opcode)
      [] instruction = "OP8XY0" -> OP8XY0(c, opcode)
      [] instruction = "OP8XY1" -> OP8XY1(c, opcode)
      [] instruction = "OP8XY2" -> OP8XY2(c, opcode)
      [] instruction = "OP8XY3" -> OP8XY3(c, opcode)
      [] instruction = "OP8XY4" -> OP8XY4(c, opcode)
      [] instruction = "OP8XY5" -> OP8XY5(c, opcode)
      [] instruction = "OP8XY6" -> OP8XY6(c, opcode)
      [] instruction = "OP8XY7" -> OP8XY7(c, opcode)
      [] instruction = "OP8XYE" -> OP8XYE(c, opcode)
      [] instruction = "OP9XY0" -> OP9XY0(c, opcode)
      [] instruction = "OPANNN" -> OPANNN(c, opcode)
      [] instruction = "OPBNNN" -> OPBNNN(c, opcode)
      [] instruction = "OPCXNN" -> OPCXNN(c, opcode, rnd)
      [] instruction = "OPDXYN" -> OPDXYN(c, opcode)
      [] instruction = "OPEX9E" -> OPEX9E(c, opcode)
      [] instruction = "OPEXA1" -> OPEXA1(c, opcode)
      [] instruction = "OPFX07" -> OPFX07(c, opcode)
      [] instruction = "OPFX0A" -> OPFX0A(c, opcode, key)
      [] instruction = "OPFX15" -> OPFX15(c, opcode)
      [] instruction = "OPFX18" -> OPFX18(c, opcode)
      [] instruction = "OPFX1E" -> OPFX1E(c, opcode)
      [] instruction = "OPFX29" -> OPFX29(c, opcode)
      [] instruction = "OPFX33" -> OPFX33(c, opcode)
      [] instruction = "OPFX55" -> OPFX55(c, opcode)
      [] instruction = "OPFX65" -> OPFX65(c, opcode)
      [] OTHER -> Raise(c)

\* a faulty update_pc that advances by one byte
update_pcByOne(c) == [c EXCEPT !.program_counter = @ + 1]

\* Chip8CPU.update_pc
update_pc(c) == [c EXCEPT !.program_counter = @ + 2]

\* Chip8CPU.cycle, as a function of the state before it
Cycle(c, rnd, key) ==
    IF ~FetchOk(c) THEN Raise(c)
    ELSE LET opcode == fetch(c)
             done == execute(c, decode(opcode), opcode, rnd, key)
         IN  IF done.exc THEN done ELSE update_pc(done)

(***************************************************************************)
(* The state after Chip8CPU.__init__ (reset_cpu).                          *)
(***************************************************************************)
\* Chip8CPU.init_character_sprites: the 0-F character sprites
character_sprites ==
    << \hf0, \h90, \h90, \h90, \hf0,
       \h20, \h60, \h20, \h20, \h70,
       \hf0, \h10, \hf0, \h80, \hf0,
       \hf0, \h10, \hf0, \h10, \hf0,
       \h90, \h90, \hf0, \h10, \h10,
       \hf0, \h80, \hf0, \h10, \hf0,
       \hf0, \h80, \hf0, \h90, \hf0,
       \hf0, \h10, \h20, \h40, \h40,
       \hf0, \h90, \hf0, \h90, \hf0,
       \hf0, \h90, \hf0, \h10, \hf0,
       \hf0, \h90, \hf0, \h90, \h90,
       \he0, \h90, \he0, \h90, \he0,
       \hf0, \h80, \h80, \h80, \hf0,
       \he0, \h90, \h90, \h90, \he0,
       \hf0, \h80, \hf0, \h80, \hf0,
       \hf0, \h80, \hf0, \h80, \h80 >>

\* Chip8CPU.reset_cpu
reset_cpu ==
    [memory |-> ListSliceAssign([k \in 1..MEMORY_SIZE |-> 0], 0, 80, character_sprites),
     program_counter |-> START_ADDRESS,
     stack |-> << >>,
     v_registers |-> [k \in 1..NUM_REGISTERS |-> 0],
     i_register |-> 0,
     delay_timer |-> 0,
     sound_timer |-> 0,
     inputs |-> [k \in 1..NUM_INPUTS |-> 0],
     screen |-> reset_screen,
     fx15_delay_timer |-> << >>,
     fx18_sound_timer |-> << >>,
     exc |-> FALSE]

(***************************************************************************)
(* The ROM images the model loads, each a sequence of opcodes.             *)
(***************************************************************************)
\* one opcode of every instruction, with the operands the handlers branch on
RomOpcodes ==
    { \h00e0, \h00ee, \h0123, \h1200, \h1201, \h1204, \h2202, \h2204,
      \h3000, \h3005, \h4000, \h4005, \h5010, \h5001, \h9010,
      \h6005, \h60ff, \h6104, \h6f04, \h603c, \h611e,
      \h7001, \h70ff,
      \h8010, \h8011, \h8012, \h8013, \h8014, \h8015, \h8016, \h8017, \h801e,
      \h8105, \h800e, \h8f06, \h8f0e, \h8ff4,
      \ha050, \ha2ff, \hafff,
      \hb200, \hc007,
      \hd000, \hd005, \hd015, \hd00f, \hdf05,
      \he09e, \he0a1,
      \hf007, \hf00a, \hf015, \hf018, \hf01e, \hf029, \hf033,
      \hf055, \hf155, \hf065, \hf165, \hff65, \hf0ff }

\* every program of one or two of those opcodes
ShortRoms == {<<a>> : a \in RomOpcodes} \cup {<<a, b>> : a, b \in RomOpcodes}

\* longer programs: registers driven out of 0..255, nested calls, timers,
\* wrapped and repeated draws, block transfers and decimal digits
ScenarioRoms ==
    { <<\h60ff, \h800e, \h800e, \h800e, \h8105, \hf129, \hd001>>,
      <<\h2202, \h2204, \h00ee>>,
      <<\h2206, \h1200, \h0000, \h2208, \h00ee>>,
      <<\h6005, \hf015, \hf107>>,
      <<\h6007, \hf018, \hf015, \hf107>>,
      <<\h603c, \h611e, \hd015, \hd015>>,
      <<\h6003, \hd015, \h00e0, \hd015, \hd015>>,
      <<\h60ff, \hafff, \hf055, \hd002>>,
      <<\h60ea, \ha300, \hf033, \hf265>>,
      <<\h60ff, \h7001, \h800e, \hf033>>,
      <<\h6011, \h6122, \h6233, \ha300, \hf255, \h6100, \hf265>>,
      <<\hafff, \hff65, \h6105>>,
      <<\hafff, \hff65, \h3100>>,
      <<\hafff, \hff65, \hd001>>,
      <<\h60ff, \h6101, \h8014, \h3000, \h1200, \h4001>>,
      <<\h6006, \hf029, \hd125, \h6004, \hd125>>,
      <<\h6a3d, \h6b1f, \ha005, \hdab3, \hdab3>>,
      <<\h60ff, \h800e, \h800e, \hf029, \hf055, \hf065>>,
      <<\hafff, \hff65, \hff55, \hff65>>,
      <<\h60ff, \h800e, \h800e, \h800e, \h8105, \hf129, \hf233>>,
      <<\hafff, \hf165, \h8014>>,
      <<\h6001, \hf029, \hd005, \h00e0>>,
      <<\h60ff, \ha300, \hf055, \hd001, \haffe, \hd003>> }

\* register values loaded by 6XNN in the programs below
ByteSamples == {0, 1, 9, 10, 99, 100, 127, 128, 199, 200, 254, 255}

\* addresses loaded by ANNN in the programs below: inside memory and at its end
AddressSamples == {\h300, 4080, 4093, 4094, 4095}

\* programs that add two registers: V0 + V1, V0 + V0 and V0 + VF
AddRoms ==
    {<<\h6000 + vx, \h6100 + vy, \h8014>> : vx \in ByteSamples, vy \in ByteSamples}
        \cup {<<\h6000 + vx, \h8004>> : vx \in ByteSamples}
        \cup {<<\h6000 + vx, \h6f00 + vy, \h80f4>> : vx \in {1, 255}, vy \in {0, 255}}

\* programs that store the decimal digits of V0 at I
DigitRoms ==
    {<<\h6000 + vx, \ha000 + i, \hf033>> : vx \in ByteSamples, i \in AddressSamples}

\* programs that store V0..VX at I and load them back at once
StoreLoadRoms ==
    {<<\h6011, \h6122, \h6f33, \ha000 + i, \hf055 + (256 * x), \hf065 + (256 * x)>> :
        i \in AddressSamples, x \in {0, 1, 2, 15}}

Roms == ShortRoms \cup ScenarioRoms \cup AddRoms \cup DigitRoms \cup StoreLoadRoms

\* the bytes of a ROM file holding the opcodes, high byte first
RomBytes(rom) ==
    [k \in 1..(2 * Len(rom)) |->
        IF k % 2 = 1 THEN rom[(k + 1) \div 2] \div 256 ELSE rom[k \div 2] % 256]

\* Chip8CPU.load_rom: memory[i] = byte for each byte of the file, from 0x200 on
RECURSIVE LoadBytes(_, _, _)
LoadBytes(c, bytes, k) ==
    IF c.exc \/ k > Len(bytes) THEN c
    ELSE LoadBytes(SetMem(c, (START_ADDRESS + k) - 1, bytes[k]), bytes, k + 1)

(***************************************************************************)
(* The specification: main() builds the CPU, loads a ROM and runs start(). *)
(***************************************************************************)
InitCPU ==
    /\ memory = reset_cpu.memory
    /\ program_counter = reset_cpu.program_counter
    /\ stack = reset_cpu.stack
    /\ v_registers = reset_cpu.v_registers
    /\ i_register = reset_cpu.i_register
    /\ delay_timer = reset_cpu.delay_timer
    /\ sound_timer = reset_cpu.sound_timer
    /\ inputs = reset_cpu.inputs
    /\ screen = reset_cpu.screen
    /\ fx15_delay_timer = reset_cpu.fx15_delay_timer
    /\ fx18_sound_timer = reset_cpu.fx18_sound_timer
    /\ host = "load"
    /\ loop_i = 0
    /\ cycles = 0
    /\ history = << >>
    /\ prev = reset_cpu
    /\ events = << >>

\* ... and decode() has not been called on its own
Init == InitCPU /\ probe = << >>

\* main: cpu.load_rom(rom_path)
load_rom ==
    /\ host = "load"
    /\ \E rom \in Roms :
          LET c == LoadBytes(CPU, RomBytes(rom), 1)
          IN  /\ memory' = c.memory
              /\ host' = IF c.exc THEN "crashed" ELSE "cycle"
    /\ prev' = [prev EXCEPT !.memory = memory']
    /\ UNCHANGED <<program_counter, stack, v_registers, i_register, delay_timer,
                   sound_timer, inputs, screen, fx15_delay_timer,
                   fx18_sound_timer, loop_i, cycles, history, events, probe>>

\* what cycle() is about to fetch and decode in state c
Fetched(c) ==
    IF FetchOk(c)
    THEN [opcode |-> fetch(c), instruction |-> decode(fetch(c))]
    ELSE [opcode |-> 0, instruction |-> "None"]

\* the values random.randint(0, 255) can return in the handler about to run
RandomByte(instruction) == IF instruction = "OPCXNN" THEN 0..255 ELSE {0}

\* the values random.randint(0, 15) can return in the handler about to run
RandomKey(instruction) == IF instruction = "OPFX0A" THEN 0..15 ELSE {0}

\* a faulty burst that ends one cycle early
BurstDoneEarly(i) == i = CYCLES_PER_FRAME - 1

\* start: for i in range(4) has made all its calls of cycle()
BurstDone(i) == i = CYCLES_PER_FRAME

\* start: one self.cycle() of the burst of 4
cycle ==
    /\ host = "cycle"
    /\ cycles < MaxCycles
    /\ \E f \in {Fetched(CPU)} :
       \E rnd \in RandomByte(f.instruction), key \in RandomKey(f.instruction) :
       \E c \in {Cycle(CPU, rnd, key)} :
          /\ memory' = c.memory
          /\ program_counter' = c.program_counter
          /\ stack' = c.stack
          /\ v_registers' = c.v_registers
          /\ i_register' = c.i_register
          /\ delay_timer' = c.delay_timer
          /\ sound_timer' = c.sound_timer
          /\ inputs' = c.inputs
          /\ screen' = c.screen
          /\ fx15_delay_timer' = c.fx15_delay_timer
          /\ fx18_sound_timer' = c.fx18_sound_timer
          /\ host' = IF c.exc THEN "crashed"
                     ELSE IF BurstDone(loop_i + 1) THEN "render"
                     ELSE "cycle"
          /\ loop_i' = IF c.exc THEN loop_i ELSE loop_i + 1
          /\ history' = Append(history,
                            [opcode |-> f.opcode, instruction |-> f.instruction,
                             exc |-> c.exc, pc |-> program_counter, stack |-> stack])
          /\ events' = Append(events, IF c.exc THEN "raise" ELSE "cycle")
    /\ cycles' = cycles + 1
    /\ prev' = CPU
    /\ UNCHANGED probe

\* start: stdscr.clear(), print_debug(), print_screen(), stdscr.refresh(), sleep
render ==
    /\ host = "render"
    /\ host' = "tick"
    /\ events' = Append(events, "render")
    /\ UNCHANGED <<memory, program_counter, stack, v_registers, i_register,
                   delay_timer, sound_timer, inputs, screen, fx15_delay_timer,
                   fx18_sound_timer, loop_i, cycles, history, prev, probe>>

\* a faulty tick that decrements a timer that is 0 as well
TimerAfterTickUnguarded(timer) == timer - 1

\* Chip8CPU.update_timers, for one of the two timers
TimerAfterTick(timer) == IF timer > 0 THEN timer - 1 ELSE timer

\* start: self.update_timers(), then the next burst
update_timers ==
    /\ host = "tick"
    /\ delay_timer' = TimerAfterTick(delay_timer)
    /\ sound_timer' = TimerAfterTick(sound_timer)
    /\ host' = "cycle"
    /\ loop_i' = 0
    /\ events' = Append(events, "tick")
    /\ UNCHANGED <<memory, program_counter, stack, v_registers, i_register,
                   inputs, screen, fx15_delay_timer, fx18_sound_timer,
                   cycles, history, prev, probe>>

Next == load_rom \/ cycle \/ render \/ update_timers

Spec == Init /\ [][Next]_vars

(***************************************************************************)
(* decode() on its own: the constructed CPU's decode is applied to every   *)
(* 16-bit opcode in turn.                                                  *)
(***************************************************************************)
decode_probe ==
    /\ host = "load"
    /\ Len(probe) = 1
    /\ probe' = <<probe[1], decode(probe[1])>>
    /\ UNCHANGED <<memory, program_counter, stack, v_registers, i_register,
                   delay_timer, sound_timer, inputs, screen, fx15_delay_timer,
                   fx18_sound_timer, host, loop_i, cycles, history, prev, events>>

NextDecode == decode_probe

\* the interpreter as constructed, and any 16-bit opcode to hand to decode()
InitDecode == InitCPU /\ probe \in {<<opcode>> : opcode \in 0..\hffff}

SpecDecode == InitDecode /\ [][NextDecode]_vars

(***************************************************************************)
(* update_timers() on its own: called again and again on an interpreter    *)
(* whose timers hold any values from 0 up.                                 *)
(***************************************************************************)
\* the largest timer value the interpreter starts from
MaxTimer == 6

\* the number of calls of update_timers()
MaxTicks == 9

update_timers_probe ==
    /\ host = "load"
    /\ probe[3] < MaxTicks
    /\ delay_timer' = TimerAfterTick(delay_timer)
    /\ sound_timer' = TimerAfterTick(sound_timer)
    /\ probe' = <<probe[1], probe[2], probe[3] + 1>>
    /\ UNCHANGED <<memory, program_counter, stack, v_registers, i_register,
                   inputs, screen, fx15_delay_timer, fx18_sound_timer, host,
                   loop_i, cycles, history, prev, events>>

NextTimers == update_timers_probe

\* the interpreter as constructed, with its two timers set
InitTimers ==
    /\ memory = reset_cpu.memory
    /\ program_counter = reset_cpu.program_counter
    /\ stack = reset_cpu.stack
    /\ v_registers = reset_cpu.v_registers
    /\ i_register = reset_cpu.i_register
    /\ delay_timer \in 0..MaxTimer
    /\ sound_timer \in 0..MaxTimer
    /\ inputs = reset_cpu.inputs
    /\ screen = reset_cpu.screen
    /\ fx15_delay_timer = reset_cpu.fx15_delay_timer
    /\ fx18_sound_timer = reset_cpu.fx18_sound_timer
    /\ host = "load"
    /\ loop_i = 0
    /\ cycles = 0
    /\ history = << >>
    /\ prev = reset_cpu
    /\ events = << >>
    /\ probe = <<delay_timer, sound_timer, 0>>

SpecTimers == InitTimers /\ [][NextTimers]_vars

(***************************************************************************)
(* Vocabulary of the claims.  A claim about "a cycle executing X" is read  *)
(* of every call of cycle() that fetches and decodes X, of the state that  *)
(* call started from (prev) and of the state it left behind.               *)
(***************************************************************************)
\* the latest call of cycle()
Last == history[Len(history)]

\* the state is the one the latest call of cycle() left behind
AfterCycle ==
    /\ Len(history) > 0
    /\ host \in {"cycle", "render", "crashed"}
    /\ host = "cycle" => loop_i > 0

\* the latest call of cycle() decoded this instruction
Executed(instruction) == AfterCycle /\ Last.instruction = instruction

\* ... and returned without raising
Completed(instruction) == Executed(instruction) /\ ~Last.exc

\* the register file of state c has the register, and it holds a bit
RegIsBit(c, x) ==
    /\ Len(c.v_registers) > x
    /\ c.v_registers[x + 1] \in {0, 1}

\* everything but the program counter is as the cycle found it
OnlyPcChanged ==
    /\ memory = prev.memory
    /\ stack = prev.stack
    /\ v_registers = prev.v_registers
    /\ i_register = prev.i_register
    /\ delay_timer = prev.delay_timer
    /\ sound_timer = prev.sound_timer
    /\ inputs = prev.inputs
    /\ screen = prev.screen

\* bit b of the integer m
Bit(m, b) == (m \div (2 ^ b)) % 2

\* exclusive or of two bits
XorBit(a, b) == (a + b) % 2

(***************************************************************************)
(* C1.  After any cycle that executes a flag-defining instruction (8XY4,   *)
(* 8XY5, 8XY6, 8XY7, 8XYE, FX1E, DXYN), for every X and Y including        *)
(* X = 0xF, register VF holds exactly 0 or 1.                              *)
(* Refuted by the code: 8XY6 and 8XYE write VF first and VX second, so     *)
(* with X = 0xF the shifted value lands in VF; and 8XYE's vx >> 7 exceeds  *)
(* 1 once 7XNN or 8XYE has left a register above 255.                      *)
(***************************************************************************)
FlagInstructions ==
    {"OP8XY4", "OP8XY5", "OP8XY6", "OP8XY7", "OP8XYE", "OPFX1E", "OPDXYN"}

C1_FlagIsZeroOrOne ==
    (AfterCycle /\ Last.instruction \in FlagInstructions) => RegIsBit(CPU, \hf)

(***************************************************************************)
(* C2.  A DXYN cycle with I + N - 1 <= 4095 sets, for every row r in       *)
(* 0..N-1 and column c in 0..7, the pixel at ((VX + c) mod 64,             *)
(* (VY + r) mod 32) to its previous value XOR bit (7 - c) of               *)
(* memory[I + r], and leaves every other pixel unchanged; coordinates      *)
(* wrap and no framebuffer index leaves the 64x32 range.                   *)
(* Refuted by the code: FX65 at the end of memory shortens the register    *)
(* file (C19), and a DXYN after it raises on its write of VF; registers    *)
(* are not kept in 0..255 either (C16), FX29 then makes I negative, and    *)
(* below -4096 memory[I + r] raises IndexError.                            *)
(***************************************************************************)
\* the sprite bit of row r, column col: bit (7 - col) of memory[I + r]
SpriteBit(c, r, col) == Bit(ListGet(c.memory, c.i_register + r), 7 - col)

\* pixel (x, y) after a draw at (vx, vy) of n rows that starts in state c:
\* the one sprite cell (r, col) with x = (vx + col) mod 64 and
\* y = (vy + r) mod 32, if there is one, is XORed into it
DrawnPixel(c, vx, vy, n, x, y) ==
    IF (x - vx) % SCREEN_WIDTH < 8 /\ (y - vy) % SCREEN_HEIGHT < n
    THEN XorBit(c.screen[y][x],
                SpriteBit(c, (y - vy) % SCREEN_HEIGHT, (x - vx) % SCREEN_WIDTH))
    ELSE c.screen[y][x]

\* the framebuffer the claim describes for a draw that starts in state c
DrawnScreen(c, opcode) ==
    [y \in 0..(SCREEN_HEIGHT - 1) |->
        [x \in 0..(SCREEN_WIDTH - 1) |->
            DrawnPixel(c, ListGet(c.v_registers, OpX(opcode)),
                       ListGet(c.v_registers, OpY(opcode)), OpN(opcode), x, y)]]

C2_DrawXorsWrapped ==
    (Executed("OPDXYN") /\ (prev.i_register + OpN(Last.opcode)) - 1 <= 4095)
        => /\ ~Last.exc
           /\ DOMAIN screen = 0..(SCREEN_HEIGHT - 1)
           /\ \A y \in DOMAIN screen : DOMAIN screen[y] = 0..(SCREEN_WIDTH - 1)
           /\ screen = DrawnScreen(prev, Last.opcode)

\* what holds of the code: the same, for the draws that do not raise
C2_CompletedDrawXorsWrapped ==
    Completed("OPDXYN")
        => /\ DOMAIN screen = 0..(SCREEN_HEIGHT - 1)
           /\ \A y \in DOMAIN screen : DOMAIN screen[y] = 0..(SCREEN_WIDTH - 1)
           /\ screen = DrawnScreen(prev, Last.opcode)

(***************************************************************************)
(* C3.  After a DXYN cycle, VF = 1 if and only if at least one sprite bit  *)
(* equal to 1 was drawn onto a pixel that was 1 immediately before it was  *)
(* written; otherwise VF = 0, also when N = 0.  Once set during a draw the *)
(* flag is not reset later in the same draw.                               *)
(* Refuted by the code: FX65 at the end of memory shortens the register    *)
(* file (C19), and a DXYN after it raises on its write of VF.              *)
(***************************************************************************)
\* the rows a draw from state c reaches before memory[I + r] raises
RowsDrawn(c, opcode) ==
    {r \in 0..(OpN(opcode) - 1) :
        \A q \in 0..r : ListOk(c.memory, c.i_register + q)}

\* a set sprite bit of a drawn row lands on a pixel that is set
Collides(c, opcode) ==
    \E r \in RowsDrawn(c, opcode), col \in 0..7 :
        /\ SpriteBit(c, r, col) = 1
        /\ c.screen[(ListGet(c.v_registers, OpY(opcode)) + r) % SCREEN_HEIGHT]
                   [(ListGet(c.v_registers, OpX(opcode)) + col) % SCREEN_WIDTH] = 1

\* VF after the first k rows of the draw of the latest cycle
FlagAfterRows(k) ==
    DrawRows(SetReg(prev, \hf, 0), prev.i_register,
             ListGet(prev.v_registers, OpX(Last.opcode)),
             ListGet(prev.v_registers, OpY(Last.opcode)), k, 0).v_registers[16]

C3_CollisionFlag ==
    Executed("OPDXYN")
        => /\ Len(v_registers) = NUM_REGISTERS
           /\ v_registers[16] = IF Collides(prev, Last.opcode) THEN 1 ELSE 0
           /\ \A k \in RowsDrawn(prev, Last.opcode) :
                 FlagAfterRows(k) = 1 => FlagAfterRows(k + 1) = 1

\* what holds of the code: the same, from a register file of 16 registers
C3_CollisionFlagOf16Registers ==
    (Executed("OPDXYN") /\ Len(prev.v_registers) = NUM_REGISTERS)
        => /\ Len(v_registers) = NUM_REGISTERS
           /\ v_registers[16] = IF Collides(prev, Last.opcode) THEN 1 ELSE 0
           /\ \A k \in RowsDrawn(prev, Last.opcode) :
                 FlagAfterRows(k) = 1 => FlagAfterRows(k + 1) = 1

(***************************************************************************)
(* C4.  Executing the same DXYN twice in succession, with VX, VY, I and    *)
(* the N sprite bytes the same at the start of both draws, restores the    *)
(* framebuffer to its content before the first draw; from a cleared        *)
(* framebuffer and a sprite with at least one of its N x 8 bits set, the   *)
(* first draw leaves VF = 0 and the second leaves VF = 1.                  *)
(***************************************************************************)
\* VX, VY, I and the N sprite bytes of the draw are the same in states c and d
SameDraw(c, d, opcode) ==
    /\ ListGet(c.v_registers, OpX(opcode)) = ListGet(d.v_registers, OpX(opcode))
    /\ ListGet(c.v_registers, OpY(opcode)) = ListGet(d.v_registers, OpY(opcode))
    /\ c.i_register = d.i_register
    /\ \A r \in 0..(OpN(opcode) - 1) :
          ListGet(c.memory, c.i_register + r) = ListGet(d.memory, d.i_register + r)

\* one of the N x 8 bits of the sprite is set
SpriteHasBit(c, opcode) ==
    \E r \in 0..(OpN(opcode) - 1), col \in 0..7 : SpriteBit(c, r, col) = 1

\* this step is a cycle that repeats the draw the latest cycle completed
\* (a render pass and a timer tick may lie between the two)
SecondDraw ==
    /\ Len(history) > 0
    /\ Last.instruction = "OPDXYN"
    /\ ~Last.exc
    /\ host = "cycle"
    /\ cycles' = cycles + 1
    /\ Fetched(CPU).opcode = Last.opcode
    /\ Fetched(CPU).instruction = "OPDXYN"
    /\ SameDraw(prev, CPU, Last.opcode)

C4_DrawTwiceRestores ==
    [][SecondDraw =>
          /\ host' # "crashed"
          /\ screen' = prev.screen
          /\ (prev.screen = reset_screen /\ SpriteHasBit(prev, Last.opcode))
                => (v_registers[16] = 0 /\ v_registers'[16] = 1)]_vars

\* the second of two equal draws of a lit sprite has run, from a cleared framebuffer
C4_Witness ==
    /\ Len(history) >= 2
    /\ Completed("OPDXYN")
    /\ history[Len(history) - 1] = [Last EXCEPT !.pc = @ - 2]
    /\ OpN(Last.opcode) > 0
    /\ prev.screen # reset_screen
    /\ screen = reset_screen
    /\ v_registers[16] = 1

(***************************************************************************)
(* C5.  After a cycle executing FX15 the CPU's delay timer equals VX, so   *)
(* that an FX07 right after it reads VX back; after FX18 the CPU's sound   *)
(* timer equals VX.                                                        *)
(* Refuted by the code: OPFX15 and OPFX18 assign self.delay_timer and      *)
(* self.sound_timer, attributes of the instruction object, and leave the   *)
(* CPU's timers as they were.                                              *)
(***************************************************************************)
C5_TimerWritten ==
    /\ Executed("OPFX15")
          => (~Last.exc /\ delay_timer = ListGet(prev.v_registers, OpX(Last.opcode)))
    /\ Executed("OPFX18")
          => (~Last.exc /\ sound_timer = ListGet(prev.v_registers, OpX(Last.opcode)))
    /\ (Completed("OPFX07") /\ Len(history) >= 2
           /\ history[Len(history) - 1].instruction = "OPFX15"
           /\ OpX(history[Len(history) - 1].opcode) # OpX(Last.opcode))
          => ListGet(v_registers, OpX(Last.opcode))
                = ListGet(v_registers, OpX(history[Len(history) - 1].opcode))

(***************************************************************************)
(* C6.  For each conditional skip (3XNN, 4XNN, 5XY0, 9XY0) one cycle       *)
(* leaves pc at the pre-cycle pc + 4 when the condition holds and at the   *)
(* pre-cycle pc + 2 when it does not, and changes no register, memory      *)
(* byte, stack entry, timer or pixel.                                      *)
(* Refuted by the code: FX65 at the end of memory shortens the register    *)
(* file (C19), and a skip that reads a register no longer there raises.    *)
(***************************************************************************)
SkipInstructions == {"OP3XNN", "OP4XNN", "OP5XY0", "OP9XY0"}

\* the skip's condition in state c
SkipCondition(c, instruction, opcode) ==
    LET vx == ListGet(c.v_registers, OpX(opcode))
        vy == ListGet(c.v_registers, OpY(opcode))
    IN  CASE instruction = "OP3XNN" -> vx = OpNN(opcode)
          [] instruction = "OP4XNN" -> vx # OpNN(opcode)
          [] instruction = "OP5XY0" -> vx = vy
          [] instruction = "OP9XY0" -> vx # vy

C6_SkipAdvances ==
    (AfterCycle /\ Last.instruction \in SkipInstructions)
        => /\ ~Last.exc
           /\ program_counter = prev.program_counter
                 + (IF SkipCondition(prev, Last.instruction, Last.opcode) THEN 4 ELSE 2)
           /\ OnlyPcChanged

\* what holds of the code: the same, from a register file of 16 registers
C6_SkipAdvancesOf16Registers ==
    (AfterCycle /\ Last.instruction \in SkipInstructions
        /\ Len(prev.v_registers) = NUM_REGISTERS)
        => /\ ~Last.exc
           /\ program_counter = prev.program_counter
                 + (IF SkipCondition(prev, Last.instruction, Last.opcode) THEN 4 ELSE 2)
           /\ OnlyPcChanged

(***************************************************************************)
(* C7.  A cycle executing 2NNN at address A leaves pc = NNN with A pushed  *)
(* on top of the stack, and a later 00EE cycle executed with that entry on *)
(* top leaves pc = A + 2 and the stack as it was before the call, so that  *)
(* nested calls return last in, first out, each to the instruction after   *)
(* its own call.  A 1NNN cycle leaves pc = NNN and the stack unchanged.    *)
(***************************************************************************)
\* the calls of cycle() that pushed the entry on top of the stack of state c:
\* the 2NNN cycles that started from a stack one entry shorter
CallsOfTop(c) ==
    {j \in 1..(Len(history) - 1) :
        /\ history[j].instruction = "OP2NNN"
        /\ Len(history[j].stack) = Len(c.stack) - 1}

\* the latest of them
CallOfTop(c) == CHOOSE j \in CallsOfTop(c) : \A k \in CallsOfTop(c) : k <= j

C7_CallReturn ==
    /\ Executed("OP2NNN")
          => /\ ~Last.exc
             /\ program_counter = OpNNN(Last.opcode)
             /\ stack = Append(prev.stack, prev.program_counter)
             /\ prev.program_counter = Last.pc
    /\ Executed("OP1NNN")
          => /\ ~Last.exc
             /\ program_counter = OpNNN(Last.opcode)
             /\ stack = prev.stack
    /\ (Executed("OP00EE") /\ Len(prev.stack) > 0)
          => /\ ~Last.exc
             /\ CallsOfTop(prev) # {}
             /\ program_counter = history[CallOfTop(prev)].pc + 2
             /\ stack = history[CallOfTop(prev)].stack

\* a return from the inner of two nested calls has run
C7_Witness ==
    /\ Completed("OP00EE")
    /\ Len(stack) = 1
    /\ Len(prev.stack) = 2
    /\ program_counter = history[CallOfTop(prev)].pc + 2
    /\ program_counter # stack[1] + 2

(***************************************************************************)
(* C8.  In every state reachable by executing any ROM from reset           *)
(* (pc = 0x200) the program counter is even.                               *)
(* Refuted by the code, which is meant to jump where the program says:     *)
(* 1NNN and 2NNN with an odd NNN, and BNNN with an odd NNN + V0, leave an  *)
(* odd pc.  Amended: pc is 0x200 at reset and every cycle keeps its        *)
(* parity, except that 1NNN and 2NNN leave pc = NNN, BNNN leaves           *)
(* pc = NNN + V0 and 00EE leaves pc = the popped address + 2.              *)
(***************************************************************************)
C8_PcAlwaysEven == program_counter % 2 = 0

TransferInstructions == {"OP1NNN", "OP2NNN", "OPBNNN", "OP00EE"}

C8_PcParity ==
    /\ Len(history) = 0 => program_counter = START_ADDRESS
    /\ (AfterCycle /\ Last.instruction \notin TransferInstructions)
          => program_counter % 2 = prev.program_counter % 2
    /\ (Completed("OP1NNN") \/ Completed("OP2NNN"))
          => program_counter = OpNNN(Last.opcode)
    /\ Completed("OPBNNN")
          => program_counter = OpNNN(Last.opcode) + ListGet(prev.v_registers, 0)
    /\ Completed("OP00EE")
          => program_counter = prev.stack[Len(prev.stack)] + 2

\* a cycle has left an odd pc, and a cycle after it has kept pc odd
C8_Witness ==
    /\ Len(history) >= 2
    /\ AfterCycle
    /\ ~Last.exc
    /\ Last.instruction \notin TransferInstructions
    /\ prev.program_counter % 2 = 1
    /\ program_counter % 2 = 1

(***************************************************************************)
(* C9.  Every opcode of the 0x0NNN family other than 0x00E0 and 0x00EE is  *)
(* decoded to the no-op handler, and the cycle executing it changes        *)
(* nothing but pc, which it advances by 2; 0x00E0 and 0x00EE are decoded   *)
(* to clear-screen and return.                                             *)
(* Refuted by the code: the table's entry for OP0NNN expects               *)
(* opcode & 0xf000 == 0x0fff, which no opcode satisfies, so decode returns *)
(* None and execute raises AttributeError.                                 *)
(***************************************************************************)
C9_LegacyIsNoOp ==
    /\ (AfterCycle /\ Last.opcode \in 0..\h0fff /\ Last.opcode \notin {\h00e0, \h00ee}
           /\ FetchOk(prev))
          => /\ Last.instruction = "OP0NNN"
             /\ ~Last.exc
             /\ program_counter = prev.program_counter + 2
             /\ OnlyPcChanged
    /\ (AfterCycle /\ Last.opcode = \h00e0) => Last.instruction = "OP00E0"
    /\ (AfterCycle /\ Last.opcode = \h00ee) => Last.instruction = "OP00EE"

(***************************************************************************)
(* C10.  Decode is deterministic: for every 16-bit opcode 0x0000..0xFFFF   *)
(* at most one entry of the opcode table satisfies                         *)
(* (opcode & mask) == pattern, so the handler decode returns does not      *)
(* depend on the order of the table's entries.                             *)
(***************************************************************************)
C10_AtMostOneMatch ==
    Len(probe) = 2
        => \A matching \in {Matches(probe[1])} :
              /\ probe[1] \in 0..\hffff
              /\ Cardinality(matching) <= 1
              /\ \A k \in matching : probe[2] = opcode_table[k][3]
              /\ matching = {} => probe[2] = "None"

\* decode has been applied to 0x00E0, which the entry of OP00E0 alone matches
C10_Witness ==
    /\ probe = <<\h00e0, "OP00E0">>
    /\ Matches(probe[1]) = {2}

(***************************************************************************)
(* C11.  A cycle whose fetched opcode matches no entry of the opcode table *)
(* (0x5001, 0x8008, 0x9001, 0xE000, 0xF0FF, ...) proceeds silently: no     *)
(* handler runs, no error is raised, and the cycle advances pc by 2 and    *)
(* leaves all other state unchanged.                                       *)
(* Refuted by the code: decode returns None and execute calls              *)
(* None.execute(opcode), which raises AttributeError before update_pc.     *)
(***************************************************************************)
C11_UnmatchedProceeds ==
    (AfterCycle /\ FetchOk(prev) /\ Matches(Last.opcode) = {})
        => /\ Last.instruction = "None"
           /\ ~Last.exc
           /\ program_counter = prev.program_counter + 2
           /\ OnlyPcChanged

\* what holds of the code: the cycle raises and leaves everything as it was
C11_UnmatchedRaises ==
    (AfterCycle /\ FetchOk(prev) /\ Matches(Last.opcode) = {})
        => /\ Last.instruction = "None"
           /\ Last.exc
           /\ host = "crashed"
           /\ program_counter = prev.program_counter
           /\ OnlyPcChanged

(***************************************************************************)
(* C12.  A timer tick (update_timers) decrements the delay timer and the   *)
(* sound timer each by exactly 1 when the timer is above 0 and leaves it   *)
(* unchanged when it is 0; both timers are >= 0 in every reachable state,  *)
(* and a timer holding k reads 0 after k ticks with no write in between    *)
(* and stays 0 on all further ticks.                                       *)
(***************************************************************************)
\* a timer that held k, after n ticks
TimerAfterTicks(k, n) == IF k > n THEN k - n ELSE 0

C12_TimersTick ==
    /\ delay_timer >= 0
    /\ sound_timer >= 0
    /\ Len(probe) = 3
          => /\ delay_timer = TimerAfterTicks(probe[1], probe[3])
             /\ sound_timer = TimerAfterTicks(probe[2], probe[3])

\* the delay timer held 2 and has read 0 since the second of three ticks,
\* while the sound timer is still counting down
C12_Witness ==
    /\ probe = <<2, 6, 3>>
    /\ delay_timer = 0
    /\ sound_timer = 3

(***************************************************************************)
(* C13.  In the host loop every timer tick is preceded by exactly 4        *)
(* completed cycles since the previous tick (or since the start), a render *)
(* pass happens after the 4th cycle and before the tick, and no cycle      *)
(* executes between the render pass and the tick; so after k ticks exactly *)
(* 4k cycles have executed.                                                *)
(***************************************************************************)
\* the positions in events of the steps of one kind
EventsOf(kind) == {k \in 1..Len(events) : events[k] = kind}

\* the number of steps of one kind among the first k
CountOf(kind, k) == Cardinality({j \in EventsOf(kind) : j <= k})

C13_FourCyclesPerTick ==
    /\ \A k \in EventsOf("tick") :
          /\ k >= 6
          /\ events[k - 1] = "render"
          /\ \A j \in (k - 5)..(k - 2) : events[j] = "cycle"
          /\ k > 6 => events[k - 6] = "tick"
          /\ CountOf("cycle", k) = 4 * CountOf("tick", k)
          /\ CountOf("raise", k) = 0
    /\ \A k \in EventsOf("render") :
          /\ k >= 5
          /\ events[k - 1] = "cycle"
          /\ k < Len(events) => events[k + 1] = "tick"
    /\ Len(history) = CountOf("cycle", Len(events)) + CountOf("raise", Len(events))

\* the second tick has happened, after 8 cycles and 2 render passes
C13_Witness ==
    /\ Len(events) = 12
    /\ events[12] = "tick"
    /\ CountOf("tick", 12) = 2
    /\ CountOf("cycle", 12) = 8
    /\ Len(history) = 8
    /\ host = "cycle"

(***************************************************************************)
(* C14.  Block store/load round trip: for every X in 0x0..0xF and every I, *)
(* executing FX55 and then FX65 with the same X and the same I, and no     *)
(* other instruction in between, leaves V0..VX equal to their values       *)
(* before the store and leaves VX+1..VF unchanged.                         *)
(* Refuted by the code: registers are not kept in 0..255 (C16), so FX29    *)
(* can leave I beyond the end of memory; there the store appends to memory *)
(* and the load reads an empty slice, which removes V0..VX from the        *)
(* register file.                                                          *)
(***************************************************************************)
\* the latest cycle ran FX65 right after a cycle that ran FX55 with the same X
LoadAfterStore ==
    /\ Executed("OPFX65")
    /\ Len(history) >= 2
    /\ history[Len(history) - 1].instruction = "OPFX55"
    /\ ~history[Len(history) - 1].exc
    /\ OpX(history[Len(history) - 1].opcode) = OpX(Last.opcode)

C14_StoreLoadRoundTrip ==
    /\ Executed("OPFX55")
          => /\ ~Last.exc
             /\ v_registers = prev.v_registers
             /\ i_register = prev.i_register
    /\ LoadAfterStore
          => /\ ~Last.exc
             /\ v_registers = prev.v_registers

\* what holds of the code: the same, for I inside memory
C14_RoundTripInsideMemory ==
    /\ Executed("OPFX55")
          => /\ ~Last.exc
             /\ v_registers = prev.v_registers
             /\ i_register = prev.i_register
    /\ (LoadAfterStore /\ prev.i_register \in 0..(MEMORY_SIZE - 1))
          => /\ ~Last.exc
             /\ v_registers = prev.v_registers

(***************************************************************************)
(* C15.  For every VX in 0..255 and I <= 4093, a cycle executing FX33      *)
(* stores digits h, t, u at memory[I], memory[I+1], memory[I+2] with each  *)
(* digit in 0..9 and 100*h + 10*t + u = VX, and changes no other memory    *)
(* byte and no register.                                                   *)
(* Refuted by the code: registers are not kept in 0..255 (C16), FX29 then  *)
(* makes I negative, and below -4096 memory[I] = hundreds raises           *)
(* IndexError.                                                             *)
(***************************************************************************)
\* memory of state c with h, t, u stored at I, I + 1, I + 2
WithDigits(c, h, t, u) ==
    ListSet(ListSet(ListSet(c.memory, c.i_register, h), c.i_register + 1, t),
            c.i_register + 2, u)

\* the latest cycle ran FX33 on a register that held a byte
DigitsOfByte ==
    /\ Executed("OPFX33")
    /\ ListOk(prev.v_registers, OpX(Last.opcode))
    /\ ListGet(prev.v_registers, OpX(Last.opcode)) \in 0..255

\* the digits are stored and nothing else has changed
DigitsStored ==
    /\ ~Last.exc
    /\ \E h \in 0..9, t \in 0..9, u \in 0..9 :
          /\ (100 * h) + (10 * t) + u = ListGet(prev.v_registers, OpX(Last.opcode))
          /\ memory = WithDigits(prev, h, t, u)
    /\ v_registers = prev.v_registers
    /\ i_register = prev.i_register

C15_StoresDigits ==
    (DigitsOfByte /\ prev.i_register <= 4093) => DigitsStored

\* what holds of the code: the same, for I from 0 up
C15_StoresDigitsInsideMemory ==
    (DigitsOfByte /\ prev.i_register \in 0..4093) => DigitsStored

(***************************************************************************)
(* C16.  In every state reachable by any sequence of instructions from     *)
(* reset each of the registers V0..VF holds an integer in 0..255; 7XNN,    *)
(* 8XY5 / 8XY7 and 8XYE never leave a register above 255 or below 0.       *)
(* Refuted by the code: 7XNN stores vx + nn and 8XYE stores vx << 1        *)
(* without reducing them, and 8XY5 / 8XY7 add 255 to a negative            *)
(* difference, which stays negative once a register is above 255.          *)
(***************************************************************************)
C16_RegistersAreBytes ==
    \A k \in 1..Len(v_registers) : v_registers[k] \in 0..255

(***************************************************************************)
(* C17.  For every VX and VY in 0..255, a cycle executing 8XY4 with        *)
(* X # 0xF sets VF to 1 if and only if VX + VY > 255 and to 0 otherwise,   *)
(* and stores (VX + VY) mod 255 in VX (so VX = 255, VY = 0 stores 0 with   *)
(* VF = 0).                                                                *)
(* Refuted by the code: FX65 at the end of memory shortens the register    *)
(* file (C19), and an 8XY4 after it raises on its write of VF.             *)
(***************************************************************************)
\* the latest cycle ran 8XY4 with X # 0xF on two registers that held bytes
AddOfBytes ==
    /\ Executed("OP8XY4")
    /\ OpX(Last.opcode) # \hf
    /\ ListOk(prev.v_registers, OpX(Last.opcode))
    /\ ListOk(prev.v_registers, OpY(Last.opcode))
    /\ ListGet(prev.v_registers, OpX(Last.opcode)) \in 0..255
    /\ ListGet(prev.v_registers, OpY(Last.opcode)) \in 0..255

\* VX + VY before the latest cycle
SumBefore ==
    ListGet(prev.v_registers, OpX(Last.opcode))
        + ListGet(prev.v_registers, OpY(Last.opcode))

\* VF is the carry and VX the sum modulo 255
SumStored ==
    /\ ~Last.exc
    /\ Len(v_registers) = Len(prev.v_registers)
    /\ ListOk(v_registers, \hf)
    /\ ListGet(v_registers, \hf) = (IF SumBefore > 255 THEN 1 ELSE 0)
    /\ ListGet(v_registers, OpX(Last.opcode)) = SumBefore % 255
    /\ \A k \in 0..(Len(v_registers) - 1) :
          k \notin {OpX(Last.opcode), \hf}
              => ListGet(v_registers, k) = ListGet(prev.v_registers, k)

C17_AddCarry == AddOfBytes => SumStored

\* what holds of the code: the same, from a register file of 16 registers
C17_AddCarryOf16Registers ==
    (AddOfBytes /\ Len(prev.v_registers) = NUM_REGISTERS) => SumStored

(***************************************************************************)
(* C18.  Only 00E0 and DXYN modify the framebuffer: a cycle executing any  *)
(* other instruction leaves all 64 x 32 pixels unchanged; a 00E0 cycle     *)
(* sets every pixel to 0 and leaves registers, I, memory, stack and timers *)
(* unchanged; and every pixel is 0 or 1 in every reachable state.          *)
(***************************************************************************)
C18_FramebufferWriters ==
    /\ (AfterCycle /\ Last.instruction \notin {"OP00E0", "OPDXYN"})
          => screen = prev.screen
    /\ Executed("OP00E0")
          => /\ ~Last.exc
             /\ \A y \in 0..(SCREEN_HEIGHT - 1), x \in 0..(SCREEN_WIDTH - 1) :
                   screen[y][x] = 0
             /\ v_registers = prev.v_registers
             /\ i_register = prev.i_register
             /\ memory = prev.memory
             /\ stack = prev.stack
             /\ delay_timer = prev.delay_timer
             /\ sound_timer = prev.sound_timer
    /\ DOMAIN screen = 0..(SCREEN_HEIGHT - 1)
    /\ \A y \in DOMAIN screen :
          /\ DOMAIN screen[y] = 0..(SCREEN_WIDTH - 1)
          /\ \A x \in DOMAIN screen[y] : screen[y][x] \in {0, 1}

\* a 00E0 cycle has cleared a framebuffer that a draw had lit
C18_Witness ==
    /\ Completed("OP00E0")
    /\ prev.screen # reset_screen
    /\ screen = reset_screen
    /\ \E k \in 1..(Len(history) - 1) : history[k].instruction = "OPDXYN"

(***************************************************************************)
(* C19.  After any sequence of instructions memory consists of exactly     *)
(* 4096 bytes and the register file of exactly 16 registers; FX55 and FX65 *)
(* executed with I + X > 4095 neither lengthen memory nor shorten the      *)
(* register file.                                                          *)
(* Refuted by the code: FX55 assigns the X + 1 registers to the slice      *)
(* memory[I:I+X+1], which Python cuts at the end of memory, so the list    *)
(* grows; FX65 assigns that shorter slice to v_registers[0:X+1], so the    *)
(* register file shrinks.                                                  *)
(***************************************************************************)
C19_SizesKept ==
    /\ Len(memory) = MEMORY_SIZE
    /\ Len(v_registers) = NUM_REGISTERS

(***************************************************************************)
(* C20.  A cycle is atomic: whenever a cycle aborts with a fault (memory,  *)
(* register or key index out of range, return with an empty stack,         *)
(* unmatched opcode) every state component - V registers including VF, I,  *)
(* memory, framebuffer, stack, timers and pc - equals its value before     *)
(* that cycle; a DXYN or FX33 that runs past address 4095 leaves no        *)
(* partially drawn rows, no reset VF and no partially written digits.      *)
(* Refuted by the code: the handlers write as they go and nothing is       *)
(* rolled back when an index raises.                                       *)
(***************************************************************************)
C20_AbortedCycleAtomic ==
    (AfterCycle /\ Last.exc)
        => /\ program_counter = prev.program_counter
           /\ OnlyPcChanged

\* what holds of the code: an aborted cycle leaves pc, the stack, I, the
\* timers and the keys as they were
C20_AbortedCycleKeepsPc ==
    (AfterCycle /\ Last.exc)
        => /\ program_counter = prev.program_counter
           /\ stack = prev.stack
           /\ i_register = prev.i_register
           /\ delay_timer = prev.delay_timer
           /\ sound_timer = prev.sound_timer
           /\ inputs = prev.inputs

=============================================================================
